---- MODULE Spec2Model ----
(***************************************************************************)
(* A model of the gesture pipeline and the scene animation of gitcgl:      *)
(*   - src/store.ts: the vision store and useHandTracking.detect           *)
(*   - src/types.ts: VisionController.loop                                 *)
(*   - src/components/GestureHandler.tsx: GestureHandler.predict, and the  *)
(*     TreeScene / ActivePhotoOverlay frame callbacks                      *)
(*   - src/App.tsx: the manual controls                                    *)
(*                                                                         *)
(* Numbers.  JavaScript numbers are modelled in fixed point: a value v is  *)
(* the integer v * ONE, a product is rounded to the nearest unit.  Times   *)
(* are seconds in the same unit.  Landmark coordinates are hundredths of   *)
(* the normalized image.                                                   *)
(***************************************************************************)
EXTENDS Integers, Sequences, FiniteSets, TLC

VARIABLES
    \* --- the mounted tracking component and its refs
    mounted,                \* "VisionController" (App.tsx) or "GestureHandler"
    sensitivity,            \* GestureHandler's sensitivity prop
    lastRawStateRef,
    frameStabilityCounter,
    confirmedStateRef,
    smoothFactor,
    smoothPos,
    gestureData,            \* the last payload of onGestureDetected
    trackFrames,            \* number of tracking frames processed
    \* --- useVisionStore
    visionStore,
    \* --- history of the tracking frames (not program state)
    stabHist,
    \* --- App
    manualExplodeFactor,    \* manualExplode
    isGalleryMode,          \* galleryMode
    photos,                 \* photos.length
    \* --- TreeScene
    galleryLerpRef,
    galleryRotationRef,
    visualExplodeRef,
    isSnapRef,
    featuredIndex,
    overlayVisible,
    sequenceCounter,
    lastActionTime,
    wasGesturing,
    idleTimer,
    summonStartPos,
    \* --- ActivePhotoOverlay
    progress,
    \* --- the clock and the rendered frames
    now,                    \* Date.now() at the latest rendered frame
    sceneFrames,            \* number of rendered frames
    \* --- history of the rendered frames (not program state)
    sceneHist,
    \* --- functions of the program applied on their own
    race,                   \* an opening and a closing blend, side by side
    okProbe,                \* a hand and what isOKGesture says of it
    classProbe,             \* a hand, a category and their raw gestures
    \* --- App and VisionController: camera, recognizer, animation frames
    showCamera,             \* App state behind the camera button
    initState,              \* the recognizer promise: pending, loaded, failed
    cameraRequests,         \* getUserMedia promises not yet settled
    srcAttached,            \* video.srcObject holds a stream
    orphanStreams,          \* live streams no longer referenced by the video
    effectDeps,             \* [active, loaded] at the latest run of the effects
    pendingFrames,          \* requested animation frames: id and closure
    requestRef,             \* requestRef.current
    nextHandle,             \* the next id requestAnimationFrame returns
    \* --- history of the controller (not program state)
    ctlHist

trackVars == <<mounted, sensitivity, lastRawStateRef, frameStabilityCounter,
               confirmedStateRef, smoothFactor, smoothPos, gestureData,
               trackFrames, stabHist>>

appVars == <<manualExplodeFactor, isGalleryMode, photos>>

blendVars == <<galleryLerpRef, galleryRotationRef, visualExplodeRef, isSnapRef>>

summonVars == <<featuredIndex, overlayVisible, sequenceCounter, lastActionTime,
                wasGesturing, idleTimer, summonStartPos, progress>>

sceneVars == <<blendVars, summonVars, now, sceneFrames, sceneHist>>

ctlVars == <<showCamera, initState, cameraRequests, srcAttached, orphanStreams,
             effectDeps, pendingFrames, requestRef, nextHandle, ctlHist>>

simVars == <<race, okProbe, classProbe, ctlVars>>

vars == <<trackVars, visionStore, appVars, sceneVars, simVars>>

(***************************************************************************)
(* Fixed point                                                             *)
(***************************************************************************)
ONE == 10000

Abs(x) == IF x < 0 THEN -x ELSE x
Max(a, b) == IF a >= b THEN a ELSE b
Min(a, b) == IF a <= b THEN a ELSE b

\* a / b rounded to the nearest integer (b > 0)
RoundDiv(a, b) == (a + (b \div 2)) \div b

\* the product of two fixed-point numbers
Mul(a, b) == RoundDiv(a * b, ONE)

\* the number n / d
Fx(n, d) == (n * ONE) \div d

\* THREE.MathUtils.lerp(x, y, t) = (1 - t) * x + t * y  (no clamping of t)
Lerp(x, y, t) == RoundDiv((ONE - t) * x + t * y, ONE)

\* THREE.Vector3.lerp(v, alpha), one component: x += (v.x - x) * alpha
VecLerp(x, v, alpha) == x + Mul(v - x, alpha)

\* Math.sqrt on a non-negative integer, rounded down: the r with
\* r * r <= n < (r + 1) * (r + 1), by bisection of lo * lo <= n < hi * hi
RECURSIVE SqrtBetween(_, _, _)
SqrtBetween(n, lo, hi) ==
    IF hi - lo <= 1 THEN lo
    ELSE LET mid == (lo + hi) \div 2
         IN  IF mid * mid <= n THEN SqrtBetween(n, mid, hi)
             ELSE SqrtBetween(n, lo, mid)
Sqrt(n) == SqrtBetween(n, 0, Min(n, 1000) + 1)

(***************************************************************************)
(* GestureState (src/types.ts) and the recognizer's category names         *)
(***************************************************************************)
IDLE == "IDLE"
OPEN_PALM == "OPEN_PALM"
CLOSED_FIST == "CLOSED_FIST"
ROTATE == "ROTATE"
VICTORY == "VICTORY"
GestureState == {IDLE, OPEN_PALM, CLOSED_FIST, ROTATE, VICTORY}

\* "None" stands for an absent category (results.gestures[0]?.[0] undefined)
CategoryNames == {"None", "Open_Palm", "Closed_Fist", "Victory", "Thumb_Up",
                  "Pointing_Up"}

\* featuredIndex === null
NULL == -1

\* Date.now() when the scene mounts, in seconds since the epoch
MountTime == 1000 * ONE

(***************************************************************************)
(* Hands: 21 landmarks, landmark i of the source is element i + 1          *)
(***************************************************************************)
Pt(x, y, z) == [x |-> x, y |-> y, z |-> z]

Landmark(landmarks, i) == landmarks[i + 1]

\* A hand given by the landmarks the code reads; the others lie on the wrist.
MkHand(wrist, thumbTip, indexMCP, indexTip, palm, middleTip, ringTip, pinkyTip) ==
    [i \in 1..21 |->
        CASE i = 1  -> wrist
          [] i = 5  -> thumbTip
          [] i = 6  -> indexMCP
          [] i = 9  -> indexTip
          [] i = 10 -> palm
          [] i = 13 -> middleTip
          [] i = 17 -> ringTip
          [] i = 21 -> pinkyTip
          [] OTHER  -> wrist]

(***************************************************************************)
(* Geometric helpers                                                       *)
(***************************************************************************)
GetDistance(p1, p2) ==
    Sqrt((p1.x - p2.x) * (p1.x - p2.x) + (p1.y - p2.y) * (p1.y - p2.y))

\* the pinch test alone, without the fist guard
IsPinching(landmarks) ==
    GetDistance(Landmark(landmarks, 4), Landmark(landmarks, 8)) * 10
        < GetDistance(Landmark(landmarks, 0), Landmark(landmarks, 5)) * 5

\* pinchDist < handScale * 0.5  and  middleToWrist > handScale * 0.9,
\* the products by 0.5 and 0.9 taken exactly (both sides times 10)
IsOKGesture(landmarks) ==
    LET wrist     == Landmark(landmarks, 0)
        thumbTip  == Landmark(landmarks, 4)
        indexTip  == Landmark(landmarks, 8)
        middleTip == Landmark(landmarks, 12)
        indexMCP  == Landmark(landmarks, 5)
        handScale == GetDistance(wrist, indexMCP)
        pinchDist == GetDistance(thumbTip, indexTip)
        isPinching == pinchDist * 10 < handScale * 5
        middleToWrist == GetDistance(middleTip, wrist)
        isNotFist == middleToWrist * 10 > handScale * 9
    IN  isPinching /\ isNotFist

\* avgDist < handSize * 1.0, avgDist the mean of four distances
IsHandClosedGeometric(landmarks) ==
    LET wrist == Landmark(landmarks, 0)
        sumDist == GetDistance(Landmark(landmarks, 8), wrist)
                 + GetDistance(Landmark(landmarks, 12), wrist)
                 + GetDistance(Landmark(landmarks, 16), wrist)
                 + GetDistance(Landmark(landmarks, 20), wrist)
        handSize == GetDistance(Landmark(landmarks, 5), wrist)
    IN  sumDist < handSize * 4

(***************************************************************************)
(* Detector results fed to the tracking loops                              *)
(***************************************************************************)
\* The hands of the model (hundredths of the image): wrist (50,80), index
\* knuckle (50,60), so the hand scale is 20; the palm landmark is shared.
WristPt == Pt(50, 80, 0)
IndexMcpPt == Pt(50, 60, 0)
PalmPt == Pt(70, 25, 0)

\* thumb on the index tip, middle finger stretched: an OK sign
PinchHand ==
    MkHand(WristPt, Pt(47, 36, 0), IndexMcpPt, Pt(50, 40, 0), PalmPt,
           Pt(50, 55, -3), Pt(50, 40, 0), Pt(50, 40, 0))
\* all four finger tips curled back to the wrist
FistHand ==
    MkHand(WristPt, Pt(62, 75, 0), IndexMcpPt, Pt(50, 70, 0), PalmPt,
           Pt(50, 70, 0), Pt(50, 70, 0), Pt(50, 70, 0))
\* fingers spread
OpenHand ==
    MkHand(WristPt, Pt(20, 80, 0), IndexMcpPt, Pt(50, 30, 0), PalmPt,
           Pt(50, 25, 0), Pt(50, 35, 0), Pt(20, 40, 0))

Hands == {PinchHand, FistHand, OpenHand}

\* results.landmarks (zero or one hand) and the first category name
NoHandResult == [landmarks |-> <<>>, category |-> "None"]
DetectorResults ==
    {NoHandResult} \cup
    {[landmarks |-> <<h>>, category |-> c] : h \in Hands, c \in CategoryNames}

(***************************************************************************)
(* Bounds of the model                                                     *)
(***************************************************************************)
MaxTrackFrames == 12

(***************************************************************************)
(* The debounce step shared by detect (store.ts) and predict               *)
(***************************************************************************)
StabilityThreshold == 4

\* variants of the stability test: one frame early, one frame late
IsStableEarly(counter) == counter >= StabilityThreshold
IsStableLate(counter) == counter > StabilityThreshold + 1

\* a stability test met by the fourth frame of a streak
IsStableAtFour(counter) == counter + 1 >= StabilityThreshold

\* "if (frameStabilityCounter.current > 4)"
IsStable(counter) == counter > StabilityThreshold

\* the refs after the debounce step on rawState
Debounce(rawState) ==
    LET same == rawState = lastRawStateRef
        counter == IF same THEN frameStabilityCounter + 1 ELSE 0
    IN  [lastRaw |-> rawState,
         counter |-> counter,
         confirmed |-> IF IsStable(counter) THEN rawState ELSE confirmedStateRef]

(***************************************************************************)
(* History of the tracking frames                                          *)
(*   raw         the raw classification of the latest frame, "NONE" if the *)
(*               frame classified nothing (no hand in detect)              *)
(*   same        the number of latest consecutive frames classified raw    *)
(*   fresh       that streak began on a frame that replaced lastRaw        *)
(*   runLen      debounce steps taken since the last replacement of        *)
(*               lastRaw, that step included (0: lastRaw never replaced)   *)
(*   runBefore   the confirmed gesture before that replacement             *)
(*   runChanges  changes of the confirmed gesture since that replacement   *)
(*   published   the gesture handed to the consumers on the latest frame   *)
(*   prevPublished   and on the frame before it                            *)
(***************************************************************************)
InitStabHist ==
    [raw |-> "NONE", same |-> 0, fresh |-> FALSE, runLen |-> 0,
     runBefore |-> IDLE, runChanges |-> 0,
     published |-> IDLE, prevPublished |-> IDLE]

\* after a frame whose debounce step ran on rawState with outcome d
HistAfterDebounce(rawState, d, published) ==
    LET replaced == rawState # lastRawStateRef
        changed == d.confirmed # confirmedStateRef
    IN  [raw |-> rawState,
         same |-> IF stabHist.raw = rawState THEN stabHist.same + 1 ELSE 1,
         fresh |-> IF replaced THEN TRUE
                   ELSE IF stabHist.raw = rawState THEN stabHist.fresh
                   ELSE FALSE,
         runLen |-> IF replaced THEN 1
                    ELSE IF stabHist.runLen = 0 THEN 0
                    ELSE stabHist.runLen + 1,
         runBefore |-> IF replaced THEN confirmedStateRef ELSE stabHist.runBefore,
         runChanges |-> (IF replaced THEN 0 ELSE stabHist.runChanges)
                        + (IF changed THEN 1 ELSE 0),
         published |-> published,
         prevPublished |-> stabHist.published]

\* after a frame on which no debounce step ran
HistAfterNoStep(published) ==
    [stabHist EXCEPT !.raw = "NONE", !.same = 0, !.fresh = FALSE,
                     !.published = published,
                     !.prevPublished = stabHist.published]

(***************************************************************************)
(* useHandTracking.detect and VisionController.loop                        *)
(***************************************************************************)
Window == [innerWidth |-> 1200, innerHeight |-> 800]
VISIBLE_HEIGHT == 20
VisibleWidth == (VISIBLE_HEIGHT * ONE * Window.innerWidth) \div Window.innerHeight

\* the labels tested before the OK sign
DetectRawStateLabelFirst(landmarks, gestureName) ==
    IF gestureName = "Open_Palm" THEN OPEN_PALM
    ELSE IF gestureName = "Closed_Fist" THEN CLOSED_FIST
    ELSE IF IsOKGesture(landmarks) \/ gestureName = "Victory"
            \/ gestureName = "Thumb_Up" \/ gestureName = "Pointing_Up"
    THEN VICTORY
    ELSE IDLE

\* the raw gesture of detect (store.ts): no geometric fist rule, no ROTATE
DetectRawState(landmarks, gestureName) ==
    IF IsOKGesture(landmarks) \/ gestureName = "Victory"
       \/ gestureName = "Thumb_Up" \/ gestureName = "Pointing_Up"
    THEN VICTORY
    ELSE IF gestureName = "Open_Palm" THEN OPEN_PALM
    ELSE IF gestureName = "Closed_Fist" THEN CLOSED_FIST
    ELSE IDLE

\* targetFactor from the confirmed state
TargetFactor(finalState, factor) ==
    IF finalState = CLOSED_FIST THEN 0
    ELSE IF finalState = OPEN_PALM THEN ONE
    ELSE IF finalState = VICTORY THEN Lerp(factor, Fx(5, 10), Fx(1, 10))
    ELSE Lerp(factor, Fx(2, 10), Fx(5, 100))

\* detect() is modelled in the order of its numbered steps; each step is an
\* operator whose parameters are the values the earlier steps computed.

\* step 1, position mapping: smoothPos after the lerp toward the palm
MappedPosition(palm) ==
    LET targetX == Mul(Mul(Fx(palm.x - 50, 100), VisibleWidth), Fx(15, 10))
        targetY == -Mul(Mul(Fx(palm.y - 50, 100), VISIBLE_HEIGHT * ONE), Fx(12, 10))
    IN  [x |-> VecLerp(smoothPos.x, targetX, Fx(2, 10)),
         y |-> VecLerp(smoothPos.y, targetY, Fx(2, 10)),
         z |-> VecLerp(smoothPos.z, 0, Fx(2, 10))]

\* a variant of step 4 that takes the target as it is
SmoothedFactorJump(finalState) ==
    TargetFactor(finalState, smoothFactor)

\* step 4, the smoothed factor from the confirmed state
SmoothedFactor(finalState) ==
    Lerp(smoothFactor, TargetFactor(finalState, smoothFactor), Fx(1, 10))

\* the return value of the hand branch and the refs it leaves behind
HandOutcome(rawState, d, pos, factor) ==
    [stepped |-> TRUE, rawState |-> rawState, d |-> d,
     smoothPos |-> pos, smoothFactor |-> factor,
     result |-> [isDetected |-> TRUE, worldPosition |-> pos,
                 gesture |-> d.confirmed, gestureFactor |-> factor]]

HandDebounced(rawState, d, pos) ==
    HandOutcome(rawState, d, pos, SmoothedFactor(d.confirmed))

HandClassified(rawState, pos) ==
    HandDebounced(rawState, Debounce(rawState), pos)

\* a variant of the hand-lost branch that forgets the confirmed gesture
LostOutcomeForgets(factor) ==
    [stepped |-> FALSE, rawState |-> "NONE",
     d |-> [lastRaw |-> IDLE, counter |-> 0, confirmed |-> IDLE],
     smoothPos |-> smoothPos, smoothFactor |-> factor,
     result |-> [isDetected |-> FALSE, worldPosition |-> smoothPos,
                 gesture |-> IDLE, gestureFactor |-> factor]]

\* the hand-lost branch: the factor decays, the counter is reset
LostOutcome(factor) ==
    [stepped |-> FALSE, rawState |-> "NONE",
     d |-> [lastRaw |-> lastRawStateRef, counter |-> 0,
            confirmed |-> confirmedStateRef],
     smoothPos |-> smoothPos, smoothFactor |-> factor,
     result |-> [isDetected |-> FALSE, worldPosition |-> smoothPos,
                 gesture |-> IDLE, gestureFactor |-> factor]]

\* the HandTrackingResult of detect() and the refs it leaves behind
DetectOutcome(results) ==
    IF Len(results.landmarks) > 0
    THEN HandClassified(DetectRawState(results.landmarks[1], results.category),
                        MappedPosition(Landmark(results.landmarks[1], 9)))
    ELSE LostOutcome(Lerp(smoothFactor, 0, Fx(1, 10)))

\* updateVisionData(data): the store takes the four fields
UpdateVisionData(data) ==
    visionStore' = [isHandDetected |-> data.isDetected,
                    handPosition |-> data.worldPosition,
                    gesture |-> data.gesture,
                    gestureFactor |-> data.gestureFactor]

\* the refs and the store after detect() returned o
DetectApply(o) ==
    /\ lastRawStateRef' = o.d.lastRaw
    /\ frameStabilityCounter' = o.d.counter
    /\ confirmedStateRef' = o.d.confirmed
    /\ smoothPos' = o.smoothPos
    /\ smoothFactor' = o.smoothFactor
    /\ UpdateVisionData(o.result)
    /\ stabHist' = IF o.stepped
                   THEN HistAfterDebounce(o.rawState, o.d, o.result.gesture)
                   ELSE HistAfterNoStep(o.result.gesture)

\* one pass of VisionController.loop with the controller active, the
\* recognizer loaded and the video ready: detect(), then the store update
DetectFrame(results) ==
    /\ mounted = "VisionController"
    /\ trackFrames < MaxTrackFrames
    /\ DetectApply(DetectOutcome(results))
    /\ trackFrames' = trackFrames + 1
    /\ UNCHANGED <<mounted, sensitivity, gestureData, appVars, sceneVars, simVars>>

(***************************************************************************)
(* GestureHandler.predict                                                  *)
(***************************************************************************)
\* settings.gestureSensitivity ranges over [0.5, 3.0], 1.5 by default
DefaultSensitivity == Fx(15, 10)
Sensitivities == {Fx(5, 10), DefaultSensitivity, Fx(3, 1)}

\* a / b for fixed-point numbers
Div(a, b) == RoundDiv(a * ONE, b)

\* the rotation velocity of the ROTATE branch
RotationVelocity(handX, sens) ==
    LET deadzone == Max(Fx(1, 10), Div(Fx(2, 10), sens))
        center == Fx(5, 10)
    IN  IF handX < center - deadzone
        THEN -Min(ONE, Mul(Mul((center - deadzone) - handX, 3 * ONE), sens))
        ELSE IF handX > center + deadzone
        THEN Min(ONE, Mul(Mul(handX - (center + deadzone), 3 * ONE), sens))
        ELSE 0

\* the raw gesture of predict: the four priorities
PredictRawState(hand, gesture) ==
    IF IsOKGesture(hand) \/ gesture = "Victory"
       \/ gesture = "Thumb_Up" \/ gesture = "Pointing_Up"
    THEN VICTORY
    ELSE IF gesture = "Open_Palm" THEN OPEN_PALM
    ELSE IF gesture = "Closed_Fist" \/ IsHandClosedGeometric(hand) THEN CLOSED_FIST
    ELSE ROTATE

\* the refs and the callback payload after the debounce step of predict
PredictApply(rawState, d, rotationVel, handX, handY) ==
    /\ lastRawStateRef' = d.lastRaw
    /\ frameStabilityCounter' = d.counter
    /\ confirmedStateRef' = d.confirmed
    /\ gestureData' = [state |-> d.confirmed,
                       rotationVelocity |-> rotationVel,
                       pinchDistance |-> 0,
                       handCenter |-> [x |-> handX, y |-> handY]]
    /\ stabHist' = HistAfterDebounce(rawState, d, d.confirmed)

PredictClassified(rawState, handX, handY) ==
    PredictApply(rawState, Debounce(rawState),
                 IF rawState = ROTATE THEN RotationVelocity(handX, sensitivity) ELSE 0,
                 handX, handY)

\* one pass of predict with the recognizer loaded and the video ready
PredictFrame(results) ==
    /\ mounted = "GestureHandler"
    /\ trackFrames < MaxTrackFrames
    /\ IF Len(results.landmarks) > 0
       THEN PredictClassified(
                PredictRawState(results.landmarks[1], results.category),
                Fx(Landmark(results.landmarks[1], 9).x, 100),
                Fx(Landmark(results.landmarks[1], 9).y, 100))
       ELSE PredictClassified(IDLE, Fx(5, 10), Fx(5, 10))
    /\ trackFrames' = trackFrames + 1
    /\ UNCHANGED <<mounted, sensitivity, smoothFactor, smoothPos, visionStore,
                   appVars, sceneVars, simVars>>

(***************************************************************************)
(* Construction                                                            *)
(***************************************************************************)
InitVisionStore ==
    [isHandDetected |-> FALSE, handPosition |-> Pt(0, 0, 0),
     gesture |-> IDLE, gestureFactor |-> 0]

InitGestureData ==
    [state |-> IDLE, rotationVelocity |-> 0, pinchDistance |-> 0,
     handCenter |-> [x |-> Fx(5, 10), y |-> Fx(5, 10)]]

InitTrackRefs ==
    /\ lastRawStateRef = IDLE
    /\ frameStabilityCounter = 0
    /\ confirmedStateRef = IDLE
    /\ smoothFactor = 0
    /\ smoothPos = Pt(0, 0, 0)
    /\ gestureData = InitGestureData
    /\ trackFrames = 0
    /\ stabHist = InitStabHist

\* App.tsx mounts VisionController; GestureHandler is the other component
\* that owns a recognizer loop
InitMounted ==
    /\ mounted \in {"VisionController", "GestureHandler"}
    /\ sensitivity \in IF mounted = "GestureHandler" THEN Sensitivities
                       ELSE {DefaultSensitivity}

InitApp ==
    /\ manualExplodeFactor = 0
    /\ isGalleryMode = FALSE
    /\ photos = 0

\* the Vector3(0,0,0) summonStartPos starts with
OriginPos == [index |-> NULL, count |-> 0, push |-> 0, lift |-> 0]

InitSceneHist ==
    [galleryBefore |-> 0, galleryMode |-> FALSE, effectiveTarget |-> 0,
     manual |-> 0, hand |-> FALSE, factor |-> 0,
     gesture |-> IDLE, visibleBefore |-> FALSE, held |-> 0,
     roundTrip |-> "start", summonedAt |-> 0, transitionAt |-> 0]

InitScene ==
    /\ galleryLerpRef = 0
    /\ galleryRotationRef = 0
    /\ visualExplodeRef = 0
    /\ isSnapRef = FALSE
    /\ featuredIndex = NULL
    /\ overlayVisible = FALSE
    /\ sequenceCounter = 0
    /\ lastActionTime = 0
    /\ wasGesturing = FALSE
    /\ idleTimer = 0
    /\ summonStartPos = OriginPos
    /\ progress = 0
    /\ now = MountTime
    /\ sceneFrames = 0
    /\ sceneHist = InitSceneHist

\* nothing is applied on its own
NoRace == [delta |-> 0, gap |-> 0, opening |-> 0, closing |-> 0, ticks |-> 0,
           openedAt |-> 0, closedAt |-> 0]
NoProbe == [scale |-> 0, pinch |-> 0, middle |-> 0, landmarks |-> <<>>,
            probed |-> FALSE, result |-> FALSE]

NoClassProbe == [landmarks |-> <<>>, category |-> "None",
                 detectRaw |-> "NONE", predictRaw |-> "NONE"]

\* App and VisionController after the mount: the camera is off, the
\* recognizer is loading, both effects have run once with active and loaded
\* false, so the first animation frame of loop is requested
(***************************************************************************)
(* History of the animation frames of loop                                 *)
(*   ranActive a loop whose closure holds active = true ran on the latest  *)
(*             animation frame                                             *)
(*   calls     calls of detect() during the latest animation frame         *)
(*   invoked   detect() was called on some animation frame                 *)
(*   threw     the latest animation frame ended in an uncaught TypeError   *)
(*   handLen   landmarks of the hand the recognizer returned on the latest *)
(*             animation frame, NULL if it returned no hand or did not run *)
(*   wrote     the latest animation frame called updateVisionData          *)
(***************************************************************************)
InitCtlHist ==
    [ranActive |-> FALSE, calls |-> 0, invoked |-> FALSE, threw |-> FALSE,
     handLen |-> NULL, wrote |-> FALSE]

InitController ==
    /\ showCamera = FALSE
    /\ initState = "pending"
    /\ cameraRequests = 0
    /\ srcAttached = FALSE
    /\ orphanStreams = 0
    /\ effectDeps = [active |-> FALSE, loaded |-> FALSE]
    /\ pendingFrames = {[id |-> 1, active |-> FALSE, loaded |-> FALSE]}
    /\ requestRef = 1
    /\ nextHandle = 2
    /\ ctlHist = InitCtlHist

InitSim ==
    /\ race = NoRace
    /\ okProbe = NoProbe
    /\ classProbe = NoClassProbe
    /\ InitController

Init ==
    /\ mounted = "VisionController"
    /\ sensitivity = DefaultSensitivity
    /\ InitTrackRefs
    /\ visionStore = InitVisionStore
    /\ InitApp
    /\ InitScene
    /\ InitSim

InitTracking ==
    /\ InitMounted
    /\ InitTrackRefs
    /\ visionStore = InitVisionStore
    /\ InitApp
    /\ InitScene
    /\ InitSim

(***************************************************************************)
(* The tracking loops under every sequence of detector results             *)
(***************************************************************************)
NextTracking ==
    \/ \E results \in DetectorResults : DetectFrame(results)
    \/ \E results \in DetectorResults : PredictFrame(results)

SpecTracking == InitTracking /\ [][NextTracking]_vars

(***************************************************************************)
(* detect() from a confirmed gesture and a factor somewhere in [0, 1]      *)
(***************************************************************************)
FactorValues == {0, Fx(1, 10), Fx(2, 10), Fx(35, 100), Fx(1, 2), Fx(8, 10), ONE}

\* the gestures detect can confirm
DetectStates == {IDLE, OPEN_PALM, CLOSED_FIST, VICTORY}

\* the refs and the store after earlier frames left the gesture confirmed
\* and the factor at one of FactorValues; four frames are still to run
InitFactor ==
    /\ mounted = "VisionController"
    /\ sensitivity = DefaultSensitivity
    /\ confirmedStateRef \in DetectStates
    /\ lastRawStateRef = confirmedStateRef
    /\ frameStabilityCounter = StabilityThreshold + 1
    /\ smoothFactor \in FactorValues
    /\ smoothPos = Pt(0, 0, 0)
    /\ gestureData = InitGestureData
    /\ trackFrames = MaxTrackFrames - 4
    /\ stabHist = InitStabHist
    /\ visionStore = [isHandDetected |-> TRUE, handPosition |-> smoothPos,
                      gesture |-> confirmedStateRef,
                      gestureFactor |-> smoothFactor]
    /\ InitApp
    /\ InitScene
    /\ InitSim

NextFactor == \E results \in DetectorResults : DetectFrame(results)

SpecFactor == InitFactor /\ [][NextFactor]_vars

(***************************************************************************)
(* App: the controls of the panel                                          *)
(***************************************************************************)
\* the gallery button
ToggleGallery ==
    /\ isGalleryMode' = ~isGalleryMode
    /\ manualExplodeFactor' = IF ~isGalleryMode THEN ONE ELSE 0
    /\ progress' = 0              \* the overlay is not rendered in gallery mode
    /\ UNCHANGED <<photos, trackVars, visionStore, blendVars, featuredIndex,
                   overlayVisible, sequenceCounter, lastActionTime, wasGesturing,
                   idleTimer, summonStartPos, now, sceneFrames, sceneHist,
                   simVars>>

\* the slider, which takes no pointer events in gallery mode
SetManualExplode(value) ==
    /\ ~isGalleryMode
    /\ value # manualExplodeFactor
    /\ manualExplodeFactor' = value
    /\ UNCHANGED <<isGalleryMode, photos, trackVars, visionStore, sceneVars,
                   simVars>>

\* VisionController's loop publishes a tracking result; the controller is
\* not active in gallery mode
PublishVisionData(data) ==
    /\ ~isGalleryMode
    /\ UpdateVisionData(data)
    /\ UNCHANGED <<trackVars, appVars, sceneVars, simVars>>

(***************************************************************************)
(* TreeScene: the first frame callback (MotionBlender)                     *)
(***************************************************************************)
GalleryBlend(current, galleryMode, delta) ==
    Lerp(current, IF galleryMode THEN ONE ELSE 0, Mul(delta, 2 * ONE))

\* a variant that lets the slider alone set the target
EffectiveTargetManualOnly(manual, isHandDetected, gestureFactor) ==
    manual

EffectiveTarget(manual, isHandDetected, gestureFactor) ==
    IF isHandDetected THEN Max(manual, gestureFactor) ELSE manual

LerpSpeed(isClosing, delta) ==
    IF isClosing THEN Mul(5 * ONE, delta) ELSE Mul(Fx(6, 10), delta)

ExplodeBlend(currentVal, target, delta) ==
    Lerp(currentVal, target, LerpSpeed(target < currentVal, delta))

BlendFrame(delta, dragging, target) ==
    /\ galleryLerpRef' = GalleryBlend(galleryLerpRef, isGalleryMode, delta)
    /\ galleryRotationRef' =
           IF isGalleryMode /\ ~dragging
           THEN galleryRotationRef + Mul(delta, Fx(1, 10))
           ELSE galleryRotationRef
    /\ isSnapRef' = (target < visualExplodeRef)
    /\ visualExplodeRef' = ExplodeBlend(visualExplodeRef, target, delta)

(***************************************************************************)
(* PhotoItem: the targets of a photo object                                *)
(***************************************************************************)
\* Math.PI and twice Math.PI
Pi == 31416
TwoPi == 62832

\* a product whose first factor may be large: the same number as Mul(a, b),
\* the whole part and the fraction of a multiplied apart
MulWide(a, b) == (a \div ONE) * b + RoundDiv((a % ONE) * b, ONE)

\* Math.sin for -PI/2 <= x <= PI/2, by its series up to x^9; x2 is x * x
SinSeries(x, x2) ==
    Mul(x, ONE - RoundDiv(Mul(x2,
           ONE - RoundDiv(Mul(x2,
           ONE - RoundDiv(Mul(x2,
           ONE - RoundDiv(x2, 72)), 42)), 20)), 6))

\* Math.sin for -PI <= r <= PI
SinReduced(r) ==
    IF r > Pi \div 2 THEN SinSeries(Pi - r, Mul(Pi - r, Pi - r))
    ELSE IF r < -(Pi \div 2) THEN SinSeries(-Pi - r, Mul(-Pi - r, -Pi - r))
    ELSE SinSeries(r, Mul(r, r))

Sin(x) == SinReduced(IF x % TwoPi > Pi THEN (x % TwoPi) - TwoPi ELSE x % TwoPi)
Cos(x) == Sin(x + Pi \div 2)

\* Math.pow(b, 0.8) for 0 <= b <= 1, in fiftieths: the r with r^5 <= b^4,
\* by bisection of lo^5 <= b^4 * 50 < hi^5 (b in fiftieths as well)
RECURSIVE PowBetween(_, _, _)
PowBetween(b4, lo, hi) ==
    IF hi - lo <= 1 THEN lo
    ELSE IF ((lo + hi) \div 2) * ((lo + hi) \div 2) * ((lo + hi) \div 2)
            * ((lo + hi) \div 2) * ((lo + hi) \div 2) <= b4
         THEN PowBetween(b4, (lo + hi) \div 2, hi)
         ELSE PowBetween(b4, lo, (lo + hi) \div 2)
Fiftieths(b) == RoundDiv(b * 50, ONE)
Pow08(b) ==
    (PowBetween(Fiftieths(b) * Fiftieths(b) * Fiftieths(b) * Fiftieths(b) * 50,
                0, 51) * ONE) \div 50

TREE_HEIGHT == 18

\* getTreeRadiusAtHeight, TREE_RADIUS being 7.5
GetTreeRadiusAtHeight(y) ==
    Mul(Pow08(ONE - (y + (TREE_HEIGHT * ONE) \div 2) \div TREE_HEIGHT),
        Fx(75, 10))

\* the photos rendered: 24 placeholders when none is uploaded
PhotoTotal == IF photos = 0 THEN 24 ELSE photos

\* initialPos and surfaceNormal of the photo at parameter t of the spiral
SpiralAt(y, r, theta) ==
    [pos |-> Pt(Mul(r, Cos(theta)), y, Mul(r, Sin(theta))),
     normal |-> Pt(Cos(theta), 0, Sin(theta))]

SpiralHeight(t) ==
    Lerp((TREE_HEIGHT * ONE) \div 2 - 2 * ONE,
         -((TREE_HEIGHT * ONE) \div 2) + 2 * ONE, t)

SpiralSlot(t) ==
    SpiralAt(SpiralHeight(t),
             GetTreeRadiusAtHeight(SpiralHeight(t)) + Fx(8, 10),
             MulWide(5 * TwoPi, t))

InitialPos(index, total) ==
    SpiralSlot(Fx(index, Max(total - 1, 1)))

\* treeTargetPos: pushed along the normal, stretched, bobbing once exploded
TreeTargetAt(slot, index, explode, time) ==
    Pt(slot.pos.x + MulWide(18 * explode, slot.normal.x),
       MulWide(slot.pos.y, ONE + Mul(explode, Fx(4, 10)))
           + (IF explode > Fx(1, 10)
              THEN Mul(Mul(Sin(Mul(time, Fx(5, 10)) + index * ONE), Fx(5, 10)),
                       explode)
              ELSE 0),
       slot.pos.z + MulWide(18 * explode, slot.normal.z))

TreeTargetPos(index, total, explode, time) ==
    TreeTargetAt(InitialPos(index, total), index, explode, time)

\* galleryTargetPos: on the ring of radius 14, at baseAngle
GalleryTargetAt(baseAngle, time) ==
    Pt(14 * Sin(baseAngle),
       Mul(Sin(3 * baseAngle + Mul(time, Fx(5, 10))), Fx(25, 10)),
       14 * Cos(baseAngle))

GalleryTargetPos(index, total, rotation, time) ==
    GalleryTargetAt(index * (TwoPi \div Max(total, 8)) + rotation, time)

\* a blend that starts from the second vector
LerpVectorsFromSecond(v1, v2, alpha) ==
    Pt(v2.x + MulWide(v1.x - v2.x, alpha),
       v2.y + MulWide(v1.y - v2.y, alpha),
       v2.z + MulWide(v1.z - v2.z, alpha))

\* THREE.Vector3.lerpVectors
LerpVectors(v1, v2, alpha) ==
    Pt(v1.x + MulWide(v2.x - v1.x, alpha),
       v1.y + MulWide(v2.y - v1.y, alpha),
       v1.z + MulWide(v2.z - v1.z, alpha))

\* state.clock.elapsedTime
ElapsedTime == now - MountTime

\* finalPos of the photo at index, in the current state
TreeTargetNow(index) ==
    TreeTargetPos(index, PhotoTotal, visualExplodeRef, ElapsedTime)

GalleryTargetNow(index) ==
    GalleryTargetPos(index, PhotoTotal, galleryRotationRef, ElapsedTime)

FinalPos(index) ==
    LerpVectors(TreeTargetNow(index), GalleryTargetNow(index), galleryLerpRef)

(***************************************************************************)
(* TreeScene: the second frame callback (SummonLifecycle)                  *)
(***************************************************************************)
DisplayCount == IF photos > 0 THEN photos ELSE 24

\* the spawn position: the slot of the photo on the spiral, pushed out and
\* lifted by the explode factor of this frame
SpawnPos(nextIdx, vFactor) ==
    [index |-> nextIdx, count |-> DisplayCount,
     push |-> 9 * vFactor, lift |-> ONE + Mul(vFactor, Fx(3, 10))]

\* the point the spawn position stands for, before the group transform
SpawnVectorAt(slot, sp) ==
    Pt(slot.pos.x + MulWide(sp.push, slot.normal.x),
       MulWide(slot.pos.y, sp.lift),
       slot.pos.z + MulWide(sp.push, slot.normal.z))

SpawnVector(sp) == SpawnVectorAt(InitialPos(sp.index, sp.count), sp)

\* a variant of the trigger that fires on reaching 1000 ms
SummonTriggerAtOneSecond(isVictory, t) ==
    /\ isVictory
    /\ ~wasGesturing
    /\ t - lastActionTime >= ONE
    /\ ~overlayVisible

SummonTrigger(isVictory, t) ==
    /\ isVictory
    /\ ~wasGesturing
    /\ t - lastActionTime > ONE       \* 1000 ms
    /\ ~overlayVisible

\* a variant of the timeout test that fires on reaching 4.0 seconds
TimedOutAtThreshold(timer) ==
    timer >= 4 * ONE

TimedOut(timer) ==
    timer > 4 * ONE

\* the overlay is rendered
OverlayMounted ==
    /\ featuredIndex # NULL
    /\ photos = 0 \/ featuredIndex < photos
    /\ ~isGalleryMode

\* a variant of the overlay that stays where it is once hidden
OverlayProgressHeld(delta) ==
    IF overlayVisible THEN Lerp(progress, ONE, Mul(delta, 3 * ONE)) ELSE progress

\* ActivePhotoOverlay's frame callback, with the isVisible it was rendered with
OverlayProgress(delta) ==
    Lerp(progress, IF overlayVisible THEN ONE ELSE 0,
         Mul(delta, IF overlayVisible THEN 3 * ONE ELSE 4 * ONE))

OverlayExits(delta) ==
    /\ OverlayMounted
    /\ ~overlayVisible
    /\ OverlayProgress(delta) < Fx(1, 100)

\* a variant of the explicit dismissal that only a fist triggers
ExplicitDismissFistOnly(gesture) ==
    overlayVisible /\ gesture = CLOSED_FIST

\* if (overlayVisible) { if (isFist || isOpen) setOverlayVisible(false) }
ExplicitDismiss(gesture) ==
    overlayVisible /\ gesture \in {CLOSED_FIST, OPEN_PALM}

\* a variant that records VICTORY only on a frame that starts a summon
WasGesturingOnSummon(isVictory, trigger) ==
    IF trigger THEN TRUE ELSE IF isVictory THEN wasGesturing ELSE FALSE

\* wasGesturing.current = isVictory
WasGesturingAfter(isVictory, trigger) == isVictory

\* the frame outside gallery mode: summon, dismiss, then the overlay
SummonFrame(delta, t, gesture, vFactor) ==
    LET isVictory == gesture = VICTORY
        trigger == SummonTrigger(isVictory, t)
        nextIdx == sequenceCounter % DisplayCount
        dismiss == ExplicitDismiss(gesture)
        timer == IF trigger THEN 0
                 ELSE IF ~overlayVisible THEN idleTimer
                 ELSE IF isVictory THEN 0
                 ELSE idleTimer + delta
        timeout == overlayVisible /\ ~isVictory /\ TimedOut(timer)
        index == IF OverlayExits(delta) THEN NULL
                 ELSE IF trigger THEN nextIdx
                 ELSE featuredIndex
    IN  /\ featuredIndex' = index
        /\ summonStartPos' = IF trigger THEN SpawnPos(nextIdx, vFactor)
                             ELSE summonStartPos
        /\ sequenceCounter' = IF trigger THEN sequenceCounter + 1
                              ELSE sequenceCounter
        /\ lastActionTime' = IF trigger THEN t ELSE lastActionTime
        /\ overlayVisible' = IF trigger THEN TRUE
                             ELSE IF dismiss \/ timeout THEN FALSE
                             ELSE overlayVisible
        /\ idleTimer' = timer
        /\ wasGesturing' = WasGesturingAfter(isVictory, trigger)
        /\ progress' = IF index = NULL \/ index # featuredIndex
                          \/ ~(photos = 0 \/ index < photos)
                       THEN 0
                       ELSE IF OverlayMounted THEN OverlayProgress(delta)
                       ELSE progress

\* the frame in gallery mode
GalleryFrame ==
    /\ featuredIndex' = NULL
    /\ progress' = 0
    /\ UNCHANGED <<overlayVisible, sequenceCounter, lastActionTime,
                   wasGesturing, idleTimer, summonStartPos>>

(***************************************************************************)
(* One rendered frame: the subscribers run in mount order with one delta   *)
(***************************************************************************)
\* how close to its end the gallery transition counts as having arrived
GalleryEps == Fx(1, 1000)

\* the stage of a gallery round trip: "entered" once the transition has
\* arrived at 1 in gallery mode, "returned" once it has then arrived at 0
\* outside gallery mode
RoundTripAfter(stage, galleryMode, lerp) ==
    IF galleryMode
    THEN IF stage = "entered" \/ lerp >= ONE - GalleryEps
         THEN "entered" ELSE "start"
    ELSE IF stage \in {"entered", "returned"} /\ Abs(lerp) <= GalleryEps
         THEN "returned" ELSE stage

HistAfterFrame(delta, target) ==
    [galleryBefore |-> galleryLerpRef,
     galleryMode |-> isGalleryMode,
     effectiveTarget |-> target,
     manual |-> manualExplodeFactor,
     hand |-> visionStore.isHandDetected,
     factor |-> visionStore.gestureFactor,
     gesture |-> visionStore.gesture,
     visibleBefore |-> overlayVisible,
     held |-> IF ~isGalleryMode /\ overlayVisible
                 /\ visionStore.gesture \in {ROTATE, IDLE}
              THEN sceneHist.held + delta
              ELSE 0,
     roundTrip |-> RoundTripAfter(sceneHist.roundTrip, isGalleryMode,
                                  galleryLerpRef'),
     summonedAt |-> IF sequenceCounter' # sequenceCounter THEN now + delta
                    ELSE sceneHist.summonedAt,
     transitionAt |-> IF overlayVisible' # overlayVisible THEN now + delta
                      ELSE sceneHist.transitionAt]

Frame(delta, dragging) ==
    /\ BlendFrame(delta, dragging,
                  EffectiveTarget(manualExplodeFactor, visionStore.isHandDetected,
                                  visionStore.gestureFactor))
    /\ IF isGalleryMode
       THEN GalleryFrame
       ELSE SummonFrame(delta, now + delta, visionStore.gesture, visualExplodeRef')
    /\ now' = now + delta
    /\ sceneFrames' = sceneFrames + 1
    /\ sceneHist' = HistAfterFrame(delta,
                        EffectiveTarget(manualExplodeFactor,
                                        visionStore.isHandDetected,
                                        visionStore.gestureFactor))
    /\ UNCHANGED <<trackVars, visionStore, appVars, simVars>>

(***************************************************************************)
(* The blend under every sequence of controls, store updates and frames    *)
(***************************************************************************)
MaxBlendFrames == 3

\* 60 fps, and two frames after a stalled main thread
BlendDeltas == {Fx(1, 60), Fx(3, 10), Fx(6, 10)}

ManualValues == {0, Fx(1, 2), ONE}

BlendData ==
    [isDetected : BOOLEAN, worldPosition : {Pt(0, 0, 0)},
     gesture : {IDLE}, gestureFactor : {0, ONE}]

NextBlend ==
    \/ ToggleGallery
    \/ \E value \in ManualValues : SetManualExplode(value)
    \/ \E data \in BlendData : PublishVisionData(data)
    \/ /\ sceneFrames < MaxBlendFrames
       /\ \E delta \in BlendDeltas :
              \E dragging \in (IF isGalleryMode THEN BOOLEAN ELSE {FALSE}) :
                  Frame(delta, dragging)

SpecBlend == Init /\ [][NextBlend]_vars

(***************************************************************************)
(* The summon lifecycle under every sequence of gestures and frames        *)
(***************************************************************************)
MaxSummonFrames == 10

SummonDeltas == {Fx(1, 10), Fx(5, 10)}

SummonData ==
    [isDetected : {TRUE}, worldPosition : {Pt(0, 0, 0)},
     gesture : GestureState, gestureFactor : {0}]

NextSummon ==
    \/ \E data \in SummonData : PublishVisionData(data)
    \/ /\ sceneFrames < MaxSummonFrames
       /\ \E delta \in SummonDeltas : Frame(delta, FALSE)

SpecSummon == Init /\ [][NextSummon]_vars

(***************************************************************************)
(* The summon lifecycle across the gallery button                          *)
(***************************************************************************)
MaxModeFrames == 4

NextSummonGallery ==
    \/ \E data \in SummonData : PublishVisionData(data)
    \/ ToggleGallery
    \/ /\ sceneFrames < MaxModeFrames
       /\ \E delta \in SummonDeltas : Frame(delta, FALSE)

SpecSummonGallery == Init /\ [][NextSummonGallery]_vars

(***************************************************************************)
(* The selection and the origin of the summoned photo, with photos         *)
(* uploaded and the slider set                                             *)
(***************************************************************************)
MaxSelectFrames == 5
MaxPhotos == 3

SelectDeltas == {Fx(1, 10), Fx(6, 10)}

\* handlePhotoUpload: setPhotos(prev => [...prev, ...newPhotos]); an overlay
\* whose url becomes undefined is unmounted and loses its progress
UploadPhotos(n) ==
    /\ photos + n <= MaxPhotos
    /\ photos' = photos + n
    /\ progress' = IF featuredIndex # NULL /\ featuredIndex < photos + n
                   THEN progress ELSE 0
    /\ UNCHANGED <<manualExplodeFactor, isGalleryMode, trackVars, visionStore,
                   blendVars, featuredIndex, overlayVisible, sequenceCounter,
                   lastActionTime, wasGesturing, idleTimer, summonStartPos,
                   now, sceneFrames, sceneHist, simVars>>

InitSelect ==
    /\ mounted = "VisionController"
    /\ sensitivity = DefaultSensitivity
    /\ InitTrackRefs
    /\ visionStore = InitVisionStore
    /\ manualExplodeFactor \in {0, ONE}
    /\ isGalleryMode = FALSE
    /\ photos \in {0, 2}
    /\ InitScene
    /\ InitSim

NextSelect ==
    \/ \E data \in SummonData : PublishVisionData(data)
    \/ \E n \in {1} : UploadPhotos(n)
    \/ /\ sceneFrames < MaxSelectFrames
       /\ \E delta \in SelectDeltas : Frame(delta, FALSE)

SpecSelect == InitSelect /\ [][NextSelect]_vars

(***************************************************************************)
(* The return of a dismissed photo: the gesture changes over the first     *)
(* frames and is held from then on, and the frames keep arriving           *)
(***************************************************************************)
PublishFrames == 2
ReturnTicks == 60

ReturnDeltas == {Fx(1, 10), Fx(5, 10)}

\* requestAnimationFrame delivers the next frame
ReturnTick ==
    /\ sceneFrames < ReturnTicks
    /\ \E delta \in ReturnDeltas : Frame(delta, FALSE)

NextReturn ==
    \/ /\ sceneFrames < PublishFrames
       /\ \E data \in SummonData : PublishVisionData(data)
    \/ ReturnTick

SpecReturn == Init /\ [][NextReturn]_vars /\ WF_vars(ReturnTick)

(***************************************************************************)
(* The blend over 100 frames at 60 fps with the inputs held constant       *)
(***************************************************************************)
SteadyTicks == 100

SteadyData ==
    [isHandDetected : BOOLEAN, handPosition : {Pt(0, 0, 0)},
     gesture : {IDLE}, gestureFactor : {0, Fx(2, 10), ONE}]

InitSteady ==
    /\ mounted = "VisionController"
    /\ sensitivity = DefaultSensitivity
    /\ InitTrackRefs
    /\ visionStore \in SteadyData
    /\ manualExplodeFactor \in ManualValues
    /\ isGalleryMode = FALSE
    /\ photos = 0
    /\ InitScene
    /\ InitSim

NextSteady ==
    /\ sceneFrames < SteadyTicks
    /\ Frame(Fx(1, 60), FALSE)

SpecSteady == InitSteady /\ [][NextSteady]_vars

(***************************************************************************)
(* The explode blend, opening and closing over the same gap, frame by      *)
(* frame at one delta                                                      *)
(***************************************************************************)
MaxRaceTicks == 320

RaceDeltas == {Fx(1, 60), Fx(1, 10), Fx(2, 10), Fx(3, 10), Fx(4, 10)}

RaceGaps == {Fx(2, 10), Fx(1, 2), ONE}

\* value is within 5% of the gap from target
Covered(value, target, gap) ==
    20 * Abs(target - value) <= gap

InitRace ==
    /\ mounted = "VisionController"
    /\ sensitivity = DefaultSensitivity
    /\ InitTrackRefs
    /\ visionStore = InitVisionStore
    /\ InitApp
    /\ InitScene
    /\ okProbe = NoProbe
    /\ classProbe = NoClassProbe
    /\ InitController
    /\ race \in {[delta |-> d, gap |-> g, opening |-> 0, closing |-> g,
                  ticks |-> 0, openedAt |-> 0, closedAt |-> 0] :
                     d \in RaceDeltas, g \in RaceGaps}

RaceApply(opening, closing) ==
    race' = [race EXCEPT
                !.opening = opening,
                !.closing = closing,
                !.ticks = @ + 1,
                !.openedAt = IF @ = 0 /\ Covered(opening, race.gap, race.gap)
                             THEN race.ticks + 1 ELSE @,
                !.closedAt = IF @ = 0 /\ Covered(closing, 0, race.gap)
                             THEN race.ticks + 1 ELSE @]

RaceTick ==
    /\ race.ticks < MaxRaceTicks
    /\ race.openedAt = 0 \/ race.closedAt = 0
    /\ RaceApply(ExplodeBlend(race.opening, race.gap, race.delta),
                 ExplodeBlend(race.closing, 0, race.delta))
    /\ UNCHANGED <<trackVars, visionStore, appVars, sceneVars, okProbe,
                   classProbe, ctlVars>>

SpecRace == InitRace /\ [][RaceTick]_vars

(***************************************************************************)
(* isOKGesture on hands of known measures                                  *)
(***************************************************************************)
\* offsets with their lengths, in hundredths of the image
Off(dx, dy, len) == [dx |-> dx, dy |-> dy, len |-> len]

ScaleOffsets == {Off(0, -20, 20), Off(12, -16, 20), Off(0, -10, 10)}

PinchOffsets == {Off(0, 0, 0), Off(4, 0, 4), Off(5, 0, 5), Off(3, 4, 5),
                 Off(0, 9, 9), Off(0, 10, 10), Off(6, 8, 10), Off(0, 11, 11)}

MiddleOffsets == {Off(0, -8, 8), Off(0, -9, 9), Off(0, -10, 10),
                  Off(-6, -8, 10), Off(0, -17, 17), Off(0, -18, 18),
                  Off(0, -19, 19), Off(0, -25, 25), Off(15, -20, 25)}

ThumbDepths == {0, 30}

ProbeHand(scale, pinch, middle, z) ==
    MkHand(WristPt, Pt(30, 40, z),
           Pt(WristPt.x + scale.dx, WristPt.y + scale.dy, 0),
           Pt(30 + pinch.dx, 40 + pinch.dy, 0), PalmPt,
           Pt(WristPt.x + middle.dx, WristPt.y + middle.dy, 0),
           Pt(50, 40, 0), Pt(50, 40, 0))

InitPinch ==
    /\ mounted = "VisionController"
    /\ sensitivity = DefaultSensitivity
    /\ InitTrackRefs
    /\ visionStore = InitVisionStore
    /\ InitApp
    /\ InitScene
    /\ race = NoRace
    /\ classProbe = NoClassProbe
    /\ InitController
    /\ okProbe \in {[scale |-> s.len, pinch |-> p.len, middle |-> m.len,
                     landmarks |-> ProbeHand(s, p, m, z),
                     probed |-> FALSE, result |-> FALSE] :
                        s \in ScaleOffsets, p \in PinchOffsets,
                        m \in MiddleOffsets, z \in ThumbDepths}

ProbeOK ==
    /\ ~okProbe.probed
    /\ okProbe' = [okProbe EXCEPT !.probed = TRUE,
                                  !.result = IsOKGesture(okProbe.landmarks)]
    /\ UNCHANGED <<trackVars, visionStore, appVars, sceneVars, race,
                   classProbe, ctlVars>>

SpecPinch == InitPinch /\ [][ProbeOK]_vars

(***************************************************************************)
(* The two classifiers on the same hand and category                       *)
(***************************************************************************)
\* thumb on the index tip and the middle finger just stretched, the ring and
\* little fingers curled: an OK sign whose finger tips average a fist
PinchFistHand ==
    MkHand(WristPt, Pt(50, 62, 0), IndexMcpPt, Pt(50, 64, 0), PalmPt,
           Pt(50, 60, 0), Pt(50, 75, 0), Pt(50, 75, 0))

ProbeHands == Hands \cup {PinchFistHand}

\* the category names of the recognizer's canned gestures
ProbeCategories == CategoryNames \cup {"Thumb_Down", "ILoveYou"}

InitClassify ==
    /\ mounted = "VisionController"
    /\ sensitivity = DefaultSensitivity
    /\ InitTrackRefs
    /\ visionStore = InitVisionStore
    /\ InitApp
    /\ InitScene
    /\ race = NoRace
    /\ okProbe = NoProbe
    /\ InitController
    /\ classProbe \in {[landmarks |-> h, category |-> c,
                        detectRaw |-> "NONE", predictRaw |-> "NONE"] :
                           h \in ProbeHands, c \in ProbeCategories}

\* the raw gesture detect computes for the hand
ClassifyDetect ==
    /\ classProbe.detectRaw = "NONE"
    /\ classProbe' = [classProbe EXCEPT !.detectRaw =
                          DetectRawState(classProbe.landmarks, classProbe.category)]
    /\ UNCHANGED <<trackVars, visionStore, appVars, sceneVars, race, okProbe,
                   ctlVars>>

\* the raw gesture predict computes for the hand
ClassifyPredict ==
    /\ classProbe.predictRaw = "NONE"
    /\ classProbe' = [classProbe EXCEPT !.predictRaw =
                          PredictRawState(classProbe.landmarks, classProbe.category)]
    /\ UNCHANGED <<trackVars, visionStore, appVars, sceneVars, race, okProbe,
                   ctlVars>>

NextClassify == ClassifyDetect \/ ClassifyPredict

SpecClassify == InitClassify /\ [][NextClassify]_vars

(***************************************************************************)
(* App and VisionController: the camera button, the recognizer promise,    *)
(* the two effects on [active, loaded] and the animation frames of loop    *)
(***************************************************************************)
MaxHandles == 9

\* active={showCamera && !galleryMode}
Active == showCamera /\ ~isGalleryMode

\* loaded: setLoaded(true) follows recognizerRef.current = recognizer
Loaded == initState = "loaded"

\* a render changed active or loaded and its effects have not run yet
EffectsStale == effectDeps # [active |-> Active, loaded |-> Loaded]

\* the camera button, disabled in gallery mode
ToggleCamera ==
    /\ ~isGalleryMode
    /\ ~EffectsStale
    /\ showCamera' = ~showCamera
    /\ UNCHANGED <<trackVars, visionStore, appVars, sceneVars, race, okProbe,
                   classProbe, initState, cameraRequests, srcAttached,
                   orphanStreams, effectDeps, pendingFrames, requestRef,
                   nextHandle, ctlHist>>

\* the gallery button while the controller is mounted
ControllerToggleGallery ==
    /\ ~EffectsStale
    /\ ToggleGallery

\* init() of useHandTracking settles: the recognizer is stored and loaded
\* set, or the error is caught and logged; the effect has no dependencies,
\* so init() is not called again
InitSettles(ok) ==
    /\ initState = "pending"
    /\ ~EffectsStale
    /\ initState' = IF ok THEN "loaded" ELSE "failed"
    /\ UNCHANGED <<trackVars, visionStore, appVars, sceneVars, race, okProbe,
                   classProbe, showCamera, cameraRequests, srcAttached,
                   orphanStreams, effectDeps, pendingFrames, requestRef,
                   nextHandle, ctlHist>>

\* a cleanup that cancels nothing
CancelNothing(pending, handle) == pending

\* cancelAnimationFrame(handle)
CancelAnimationFrame(pending, handle) == {cb \in pending : cb.id # handle}

\* the effects after a render that changed active or loaded: the camera
\* effect requests a stream or stops the attached one, the loop effect
\* cancels requestRef.current and requests a frame for the new loop
RunEffects ==
    /\ EffectsStale
    /\ nextHandle <= MaxHandles
    /\ IF Active /\ Loaded
       THEN /\ cameraRequests' = cameraRequests + 1
            /\ UNCHANGED srcAttached
       ELSE /\ srcAttached' = FALSE
            /\ UNCHANGED cameraRequests
    /\ pendingFrames' = CancelAnimationFrame(pendingFrames, requestRef)
                            \cup {[id |-> nextHandle, active |-> Active,
                                   loaded |-> Loaded]}
    /\ requestRef' = nextHandle
    /\ nextHandle' = nextHandle + 1
    /\ effectDeps' = [active |-> Active, loaded |-> Loaded]
    /\ UNCHANGED <<trackVars, visionStore, appVars, sceneVars, race, okProbe,
                   classProbe, showCamera, initState, orphanStreams, ctlHist>>

\* a getUserMedia promise settles: the stream is attached to the video
\* whatever active is by now, replacing an attached stream without stopping
\* it; a refusal is caught and logged
CameraSettles(granted) ==
    /\ cameraRequests > 0
    /\ cameraRequests' = cameraRequests - 1
    /\ srcAttached' = (granted \/ srcAttached)
    /\ orphanStreams' = IF granted /\ srcAttached THEN orphanStreams + 1
                        ELSE orphanStreams
    /\ UNCHANGED <<trackVars, visionStore, appVars, sceneVars, race, okProbe,
                   classProbe, showCamera, initState, effectDeps, pendingFrames,
                   requestRef, nextHandle, ctlHist>>

\* streams whose tracks are live
LiveStreams == orphanStreams + (IF srcAttached THEN 1 ELSE 0)

\* a loop guard that ignores loaded
LoopGuardActiveOnly(active, loaded) == active

\* if (active && loaded)
LoopGuard(active, loaded) == active /\ loaded

\* a hand of n landmarks
ShortHand(n) == SubSeq(OpenHand, 1, n)

ControllerResults ==
    {NoHandResult, [landmarks |-> <<OpenHand>>, category |-> "Open_Palm"]}
    \cup {[landmarks |-> <<ShortHand(n)>>, category |-> "Open_Palm"] :
              n \in {5, 12, 16}}

\* detect() reads landmarks[9].x and, in isOKGesture, landmarks[12].x without
\* a length test: on a hand that lacks them the read of undefined throws
DetectThrows(results) ==
    /\ Len(results.landmarks) > 0
    /\ Len(results.landmarks[1]) <= 12

\* what detect() has done by the time it throws: smoothPos is lerped when
\* the palm landmark exists
ThrowApply(hand) ==
    /\ smoothPos' = IF Len(hand) >= 10 THEN MappedPosition(Landmark(hand, 9))
                    ELSE smoothPos
    /\ UNCHANGED <<lastRawStateRef, frameStabilityCounter, confirmedStateRef,
                   smoothFactor, visionStore, stabHist>>

\* the handles the surviving callbacks request, in the order of their ids
Rescheduled(survivors, first) ==
    {[id |-> first + Cardinality({c \in survivors : c.id < cb.id}),
      active |-> cb.active, loaded |-> cb.loaded] : cb \in survivors}

\* an animation frame: every requested callback runs loop. callers are the
\* callbacks whose guard holds; detect() returns null without a recognizer
\* or a ready video; a callback that throws does not request the next frame
LoopFrame(results, callers, detects) ==
    /\ IF detects /\ DetectThrows(results)
       THEN /\ ThrowApply(results.landmarks[1])
            /\ pendingFrames' = Rescheduled(pendingFrames \ callers, nextHandle)
       ELSE /\ IF detects
               THEN DetectApply(DetectOutcome(results))
               ELSE UNCHANGED <<lastRawStateRef, frameStabilityCounter,
                                confirmedStateRef, smoothFactor, smoothPos,
                                visionStore, stabHist>>
            /\ pendingFrames' = Rescheduled(pendingFrames, nextHandle)
    /\ nextHandle' = nextHandle + Cardinality(pendingFrames')
    /\ requestRef' = IF pendingFrames' = {} THEN requestRef ELSE nextHandle' - 1
    /\ ctlHist' = [ranActive |-> \E cb \in pendingFrames : cb.active,
                   calls |-> Cardinality(callers),
                   invoked |-> ctlHist.invoked \/ callers # {},
                   threw |-> detects /\ DetectThrows(results),
                   handLen |-> IF detects /\ Len(results.landmarks) > 0
                               THEN Len(results.landmarks[1]) ELSE NULL,
                   wrote |-> detects /\ ~DetectThrows(results)]

AnimationFrame(results, ready) ==
    /\ pendingFrames # {}
    /\ nextHandle + Cardinality(pendingFrames) <= MaxHandles + 1
    /\ ready => srcAttached
    /\ LoopFrame(results,
                 {cb \in pendingFrames : LoopGuard(cb.active, cb.loaded)},
                 /\ \E cb \in pendingFrames : LoopGuard(cb.active, cb.loaded)
                 /\ Loaded
                 /\ ready)
    /\ UNCHANGED <<mounted, sensitivity, gestureData, trackFrames, appVars,
                   sceneVars, race, okProbe, classProbe, showCamera, initState,
                   cameraRequests, srcAttached, orphanStreams, effectDeps>>

NextController ==
    \/ ToggleCamera
    \/ ControllerToggleGallery
    \/ \E ok \in BOOLEAN : InitSettles(ok)
    \/ RunEffects
    \/ \E granted \in BOOLEAN : CameraSettles(granted)
    \/ \E results \in ControllerResults, ready \in BOOLEAN :
           AnimationFrame(results, ready)

SpecController == Init /\ [][NextController]_vars

(***************************************************************************)
(* The gallery transition under every sequence of toggles and frames       *)
(***************************************************************************)
MaxGalleryFrames == 9

GalleryDeltas == {Fx(3, 10), Fx(45, 100)}

\* the first placeholder photo, one on the spiral's side, the last
PhotoSlots == {0, 7, 23}

NextGallery ==
    \/ ToggleGallery
    \/ /\ sceneFrames < MaxGalleryFrames
       /\ \E delta \in GalleryDeltas : Frame(delta, FALSE)

SpecGallery == Init /\ [][NextGallery]_vars

(***************************************************************************)
(* GestureStabilizer                                                       *)
(***************************************************************************)
\* C1: from the debounce step on which the raw gesture replaces lastRaw and
\* for the next 4 debounce steps on the same raw gesture, the confirmed
\* gesture is the one it was before the replacement.
C1_DebounceHolds ==
    stabHist.runLen \in 1..(StabilityThreshold + 1)
        => confirmedStateRef = stabHist.runBefore

\* a new raw gesture has been repeated 4 times and is still not confirmed
C1_Witness ==
    /\ stabHist.runLen = StabilityThreshold + 1
    /\ lastRawStateRef # confirmedStateRef
    /\ stabHist.runBefore = confirmedStateRef

\* C2: once a raw gesture has been observed on more than 4 consecutive frames
\* after the frame on which it replaced lastRaw, it is the confirmed gesture,
\* and the confirmed gesture changed once in that run if it differed before
\* the run and not at all otherwise.
C2_StableRunConfirmsOnce ==
    (stabHist.fresh /\ stabHist.same >= StabilityThreshold + 2)
        => /\ confirmedStateRef = stabHist.raw
           /\ stabHist.runChanges =
                  IF stabHist.runBefore = stabHist.raw THEN 0 ELSE 1

\* a second gesture is confirmed by a qualifying run, after a first one
C2_Witness ==
    /\ stabHist.fresh
    /\ stabHist.same >= StabilityThreshold + 2
    /\ stabHist.runChanges = 1
    /\ stabHist.runBefore # IDLE

\* C3: the gesture detect() publishes differs from the one published on the
\* previous tick only when it has been the raw classification of the latest
\* consecutive frames, as many as the stability threshold.
C3_PublishedChangeIsDebounced ==
    (mounted = "VisionController"
     /\ stabHist.published # stabHist.prevPublished)
        => /\ stabHist.raw = stabHist.published
           /\ stabHist.same >= StabilityThreshold

(***************************************************************************)
(* MotionBlender                                                           *)
(***************************************************************************)
\* C4: the explode factor is within [0, 1] after every frame, whatever the
\* delta of the frame.
C4_ExplodeFactorInRange ==
    visualExplodeRef >= 0 /\ visualExplodeRef <= ONE

\* C5: the gallery transition value is within [0, 1] after every frame; a
\* frame never moves it away from its target, and a frame that starts at the
\* end opposite to the target does not end on the target.
C5_GalleryLerpInRange ==
    LET target == IF sceneHist.galleryMode THEN ONE ELSE 0
    IN  /\ galleryLerpRef >= 0 /\ galleryLerpRef <= ONE
        /\ sceneFrames > 0
               => /\ Abs(target - galleryLerpRef)
                        <= Abs(target - sceneHist.galleryBefore)
                  /\ sceneHist.galleryBefore = ONE - target
                        => galleryLerpRef # target

(***************************************************************************)
(* SummonLifecycle                                                         *)
(***************************************************************************)
\* C6: there is one featured index at most, and a frame outside gallery mode
\* on which the gesture rises to VICTORY while a photo is featured leaves the
\* start position, the round-robin counter and the last-action time as they
\* were, and the featured index too, unless the photo's return ends on it.
C6_VictoryEdgeKeepsSummon ==
    /\ [](featuredIndex \in {NULL} \cup (0..23))
    /\ [][(/\ sceneFrames' = sceneFrames + 1
           /\ ~isGalleryMode
           /\ featuredIndex # NULL
           /\ visionStore.gesture = VICTORY
           /\ ~wasGesturing)
              => /\ featuredIndex' \in {featuredIndex, NULL}
                 /\ summonStartPos' = summonStartPos
                 /\ sequenceCounter' = sequenceCounter
                 /\ lastActionTime' = lastActionTime]_vars

\* the latest frame ran outside gallery mode with a visible photo and the
\* gesture held at ROTATE or IDLE
HeldIdle ==
    /\ sceneFrames > 0
    /\ ~sceneHist.galleryMode
    /\ sceneHist.visibleBefore
    /\ sceneHist.gesture \in {ROTATE, IDLE}

\* C7: a visible photo, with the gesture held at ROTATE or IDLE over frames
\* whose deltas add up to at least 4.0 seconds, is no longer visible; a frame
\* on which the gesture is VICTORY leaves a visible photo visible and the idle
\* timer at 0.
C7_TimeoutAtFourSeconds ==
    /\ (HeldIdle /\ sceneHist.held >= 4 * ONE) => ~overlayVisible
    /\ (sceneFrames > 0 /\ ~sceneHist.galleryMode /\ sceneHist.visibleBefore
        /\ sceneHist.gesture = VICTORY)
           => (idleTimer = 0 /\ overlayVisible)

\* C7, amended: the photo is dismissed once the deltas add up to more than
\* 4.0 seconds and stays visible until then; a frame on which the gesture is
\* VICTORY leaves a visible photo visible and the idle timer at 0.
C7_TimeoutAfterFourSeconds ==
    /\ (HeldIdle /\ sceneHist.held > 4 * ONE) => ~overlayVisible
    /\ (HeldIdle /\ sceneHist.held <= 4 * ONE)
           => (overlayVisible /\ idleTimer = sceneHist.held)
    /\ (sceneFrames > 0 /\ ~sceneHist.galleryMode /\ sceneHist.visibleBefore
        /\ sceneHist.gesture = VICTORY)
           => (idleTimer = 0 /\ overlayVisible)

\* the photo has been dismissed by the timeout, after exactly 4.0 seconds
\* had left it visible
C7_Witness ==
    /\ HeldIdle
    /\ sceneHist.held = 4 * ONE + Fx(1, 10)
    /\ ~overlayVisible
    /\ featuredIndex # NULL

(***************************************************************************)
(* MotionBlender: speeds and target                                        *)
(***************************************************************************)
\* C8: at one delta per frame and with a constant target, the closing blend
\* is within 5% of the gap from its target on an earlier frame than the
\* opening blend over a gap of the same size.
C8_ClosingCoversFirst ==
    race.openedAt > 0
        => (race.closedAt > 0 /\ race.closedAt < race.openedAt)

\* C9: the target of a frame is the manual value without a hand and the
\* greater of the manual value and the gesture factor with one, never below
\* the manual value, and the explode factor follows it; with the manual value
\* 0 and no hand, the explode factor is 0 after every frame up to the 100th.
C9_TargetRule ==
    /\ sceneFrames > 0
           => /\ sceneHist.effectiveTarget =
                     IF sceneHist.hand
                     THEN Max(sceneHist.manual, sceneHist.factor)
                     ELSE sceneHist.manual
              /\ sceneHist.effectiveTarget >= sceneHist.manual
              /\ visualExplodeRef <= sceneHist.effectiveTarget
    /\ sceneFrames = SteadyTicks
           => 10 * visualExplodeRef >= 6 * sceneHist.effectiveTarget
    /\ (manualExplodeFactor = 0 /\ ~visionStore.isHandDetected)
           => visualExplodeRef = 0

\* 100 frames with the slider at 0 and a stale gesture factor of 1 in the
\* store, no hand being detected
C9_Witness ==
    /\ sceneFrames = 100
    /\ manualExplodeFactor = 0
    /\ ~visionStore.isHandDetected
    /\ visionStore.gestureFactor = ONE
    /\ sceneHist.effectiveTarget = 0
    /\ visualExplodeRef = 0

(***************************************************************************)
(* GeometricGestureRules                                                   *)
(***************************************************************************)
\* C10: isOKGesture is true exactly when the thumb tip is nearer to the index
\* tip than half the hand scale and the middle tip is farther from the wrist
\* than 0.9 of the hand scale, distances taken in the image plane; at scale
\* 0.2 and pinch distance 0.05 it is true with the middle tip 0.25 from the
\* wrist and false with the middle tip 0.1 from the wrist.
C10_PinchOkRule ==
    okProbe.probed
        => /\ okProbe.result = (/\ 10 * okProbe.pinch < 5 * okProbe.scale
                                /\ 10 * okProbe.middle > 9 * okProbe.scale)
           /\ (okProbe.scale = 20 /\ okProbe.pinch = 5 /\ okProbe.middle = 25)
                  => okProbe.result
           /\ (okProbe.scale = 20 /\ okProbe.pinch = 5 /\ okProbe.middle = 10)
                  => ~okProbe.result

\* the scenario's pinch, with the thumb tip at another depth than the index
C10_Witness ==
    /\ okProbe.probed
    /\ okProbe.scale = 20 /\ okProbe.pinch = 5 /\ okProbe.middle = 25
    /\ Landmark(okProbe.landmarks, 4).z # Landmark(okProbe.landmarks, 8).z
    /\ okProbe.result

(***************************************************************************)
(* Choreographer: photo targets                                            *)
(***************************************************************************)
\* two positions differ by at most eps on every axis
Near(p, q, eps) ==
    /\ Abs(p.x - q.x) <= eps
    /\ Abs(p.y - q.y) <= eps
    /\ Abs(p.z - q.z) <= eps

\* C11: the blended target of every photo is its tree target when the
\* gallery transition is 0 and its gallery target when it is 1; once the
\* transition has arrived at 1 in gallery mode and then back at 0 outside it,
\* the blended target of every photo is within 0.05 of its tree target for
\* the explode factor and the clock of that moment.
C11_GalleryRoundTrip ==
    \A index \in PhotoSlots :
        /\ galleryLerpRef = 0 => FinalPos(index) = TreeTargetNow(index)
        /\ galleryLerpRef = ONE => FinalPos(index) = GalleryTargetNow(index)
        /\ sceneHist.roundTrip = "returned"
               => Near(FinalPos(index), TreeTargetNow(index), Fx(5, 100))

\* back from the gallery with the transition not yet at 0 exactly, the tree
\* exploded and the targets of the two formations far apart
C11_Witness ==
    /\ sceneHist.roundTrip = "returned"
    /\ galleryLerpRef > 0
    /\ visualExplodeRef # 0
    /\ ~Near(GalleryTargetNow(7), TreeTargetNow(7), ONE)
    /\ FinalPos(7) # TreeTargetNow(7)

(***************************************************************************)
(* C12  Whenever the hand makes the OK sign (isOKGesture) or its label is  *)
(* Victory, Thumb_Up or Pointing_Up, the raw gesture is VICTORY, whatever  *)
(* the label or the finger-tip distances say of a palm or a fist; when     *)
(* that rule does not match and the label is Open_Palm, the raw gesture is *)
(* OPEN_PALM.  Both classifiers agree on this.                             *)
(***************************************************************************)
VictoryRule(landmarks, category) ==
    IsOKGesture(landmarks) \/ category \in {"Victory", "Thumb_Up", "Pointing_Up"}

ProbedRaws == {classProbe.detectRaw, classProbe.predictRaw} \ {"NONE"}

C12_VictoryFirstThenPalm ==
    /\ VictoryRule(classProbe.landmarks, classProbe.category)
           => ProbedRaws \subseteq {VICTORY}
    /\ (/\ ~VictoryRule(classProbe.landmarks, classProbe.category)
        /\ classProbe.category = "Open_Palm")
           => ProbedRaws \subseteq {OPEN_PALM}

C12_Witness ==
    /\ classProbe.landmarks = PinchFistHand
    /\ IsOKGesture(classProbe.landmarks)
    /\ IsHandClosedGeometric(classProbe.landmarks)
    /\ classProbe.category = "Closed_Fist"
    /\ classProbe.detectRaw = VICTORY
    /\ classProbe.predictRaw = VICTORY

(***************************************************************************)
(* C13  In detect, for a detected hand that neither the VICTORY rule nor   *)
(* the Open_Palm rule matches, the raw gesture is CLOSED_FIST when the     *)
(* label is Closed_Fist or the finger tips are geometrically closed, and   *)
(* ROTATE otherwise; it is never IDLE for a detected hand.                 *)
(***************************************************************************)
C13_DetectFistThenRotate ==
    (/\ classProbe.detectRaw # "NONE"
     /\ ~VictoryRule(classProbe.landmarks, classProbe.category)
     /\ classProbe.category # "Open_Palm")
        => classProbe.detectRaw =
              IF \/ classProbe.category = "Closed_Fist"
                 \/ IsHandClosedGeometric(classProbe.landmarks)
              THEN CLOSED_FIST ELSE ROTATE

(***************************************************************************)
(* C14  When the recognizer returns a hand of fewer than 21 landmarks, the *)
(* animation frame completes without a throw and the frame is handled as   *)
(* one without a hand: the store is written with isHandDetected false and  *)
(* the gesture IDLE.                                                       *)
(***************************************************************************)
C14_ShortHandIsNoHand ==
    ctlHist.handLen \in 0..20
        => /\ ~ctlHist.threw
           /\ ctlHist.wrote
           /\ ~visionStore.isHandDetected
           /\ visionStore.gesture = IDLE

(***************************************************************************)
(* C15  Once init() has failed, loaded stays false and the failure is      *)
(* never undone; loop never calls detect(), the store keeps its initial    *)
(* value, no camera is requested, no frame throws, and the target of the   *)
(* explode blend is the slider value.                                      *)
(***************************************************************************)
C15_FailedInitStaysManual ==
    /\ [](initState = "failed"
            => /\ ~Loaded
               /\ ~ctlHist.invoked
               /\ ~ctlHist.threw
               /\ visionStore = InitVisionStore
               /\ cameraRequests = 0
               /\ LiveStreams = 0
               /\ EffectiveTarget(manualExplodeFactor,
                                  visionStore.isHandDetected,
                                  visionStore.gestureFactor)
                      = manualExplodeFactor)
    /\ [][initState = "failed"
             => initState' = "failed" /\ visionStore' = visionStore]_vars

C15_Witness ==
    /\ initState = "failed"
    /\ Active
    /\ ~EffectsStale
    /\ ctlHist.ranActive
    /\ ctlHist.calls = 0

(***************************************************************************)
(* C16  Whatever the order of the camera and gallery toggles, of the       *)
(* recognizer's loading and of the settling of the getUserMedia promises:  *)
(* while the controller is active at most one stream has live tracks, and  *)
(* once it is inactive, its effects have run and no getUserMedia promise   *)
(* is pending, no stream has live tracks.                                  *)
(***************************************************************************)
C16_NoStreamLeak ==
    /\ Active => LiveStreams <= 1
    /\ (~Active /\ ~EffectsStale /\ cameraRequests = 0) => LiveStreams = 0

(***************************************************************************)
(* C18  At most one animation frame of loop is requested at any time, the  *)
(* handle in requestRef is that request, detect() is called at most once   *)
(* per animation frame, and the store changes only on an animation frame   *)
(* of loop that called detect().                                           *)
(***************************************************************************)
C18_OneLoopChain ==
    /\ [](/\ Cardinality(pendingFrames) <= 1
          /\ \A cb \in pendingFrames : cb.id = requestRef
          /\ ctlHist.calls <= 1)
    /\ [][visionStore' # visionStore
             => /\ nextHandle' > nextHandle
                /\ ctlHist'.calls = 1
                /\ ctlHist'.wrote]_vars

C18_Witness ==
    /\ ctlHist.calls = 1
    /\ ctlHist.wrote
    /\ ~Active
    /\ ~EffectsStale
    /\ Cardinality(pendingFrames) = 1
    /\ nextHandle >= 8

(***************************************************************************)
(* C17  After a rendered frame in gallery mode the summon state is idle:   *)
(* no photo is featured and the overlay is not visible, whatever the       *)
(* gesture, the idle timer and the overlay's progress were.                *)
(***************************************************************************)
C17_GalleryFrameIdles ==
    (sceneFrames > 0 /\ sceneHist.galleryMode)
        => featuredIndex = NULL /\ ~overlayVisible

SummonTick == sceneFrames' = sceneFrames + 1 /\ ~isGalleryMode
SummonStarts == sequenceCounter' = sequenceCounter + 1 /\ overlayVisible'

\* VICTORY on this tick and not on the previous one, no photo visible
VictoryEdgeWhileHidden ==
    /\ visionStore.gesture = VICTORY
    /\ sceneFrames > 0 => sceneHist.gesture # VICTORY
    /\ ~overlayVisible

VisibleTick ==
    /\ sceneFrames > 0
    /\ ~sceneHist.galleryMode
    /\ sceneHist.visibleBefore

(***************************************************************************)
(* C21  Outside gallery mode, a frame on which a photo is visible and the  *)
(* gesture is CLOSED_FIST or OPEN_PALM leaves it not visible; a frame on   *)
(* which a photo is visible and the gesture is VICTORY leaves it visible   *)
(* with the idle timer at 0, and so does the frame that starts a summon.   *)
(***************************************************************************)
C21_FistOrPalmDismisses ==
    /\ (VisibleTick /\ sceneHist.gesture \in {CLOSED_FIST, OPEN_PALM})
           => ~overlayVisible
    /\ (sceneFrames > 0 /\ ~sceneHist.galleryMode /\ sceneHist.gesture = VICTORY
        /\ (sceneHist.visibleBefore \/ sceneHist.summonedAt = now))
           => (overlayVisible /\ idleTimer = 0)

\* an open palm has dismissed a photo whose idle timer was running
C21_Witness ==
    /\ VisibleTick
    /\ sceneHist.gesture = OPEN_PALM
    /\ ~overlayVisible
    /\ featuredIndex # NULL
    /\ idleTimer > 0

\* a summoned photo is no longer visible and its slot is not yet freed
Returning == featuredIndex # NULL /\ ~overlayVisible

(***************************************************************************)
(* C22  While the frames keep arriving, a summoned photo that is no longer *)
(* visible has its featured index cleared, unless a new summon starts      *)
(* first; until then every frame brings its progress closer to 0 and       *)
(* leaves it at 0.01 or more, and the frame that clears the index is the   *)
(* one on which the progress falls below 0.01.                             *)
(***************************************************************************)
C22_ReturnFreesSlot ==
    /\ Returning ~> (featuredIndex = NULL \/ overlayVisible)
    /\ [][(Returning /\ sceneFrames' = sceneFrames + 1 /\ ~overlayVisible')
             => IF Lerp(progress, 0, Mul(now' - now, 4 * ONE)) < Fx(1, 100)
                THEN featuredIndex' = NULL /\ progress' = 0
                ELSE /\ featuredIndex' = featuredIndex
                     /\ progress' >= Fx(1, 100)
                     /\ progress' < progress]_vars

\* the photo is half way back: dismissed, several frames into its return
C22_Witness ==
    /\ Returning
    /\ progress > Fx(1, 100)
    /\ progress < Fx(1, 10)
    /\ ~sceneHist.visibleBefore

(***************************************************************************)
(* C23  A summon starts only once the slot of the previous photo is free:  *)
(* on the frame that starts a summon no index is featured, and a frame on  *)
(* which a photo is still returning does not start a summon nor put        *)
(* another index in its place.                                             *)
(***************************************************************************)
C23_SummonOnlyFromFreeSlot ==
    [][SummonTick
         => /\ SummonStarts => featuredIndex = NULL
            /\ Returning => /\ ~SummonStarts
                            /\ featuredIndex' \in {featuredIndex, NULL}]_vars

(***************************************************************************)
(* C24  The round-robin counter changes only on a frame outside gallery    *)
(* mode, and then by one; the frame that starts the summon numbered k      *)
(* (the counter's value) features photo k mod N, N being the number of     *)
(* photos, or 24 without photos, and that index lies in 0..N-1.            *)
(***************************************************************************)
C24_RoundRobinSelection ==
    [][/\ sequenceCounter' # sequenceCounter => SummonTick /\ SummonStarts
       /\ (SummonTick /\ SummonStarts)
              => /\ featuredIndex' = sequenceCounter % DisplayCount
                 /\ featuredIndex' \in 0..(DisplayCount - 1)]_vars

(***************************************************************************)
(* C25  On the frame that starts a summon, the snapshotted origin is the   *)
(* tree target of the selected photo for the explode factor of that frame: *)
(* the same push along the normal and the same vertical stretch, up to the *)
(* bobbing of the photo (at most 0.5).                                     *)
(***************************************************************************)
C25_OriginIsTreeTarget ==
    (sequenceCounter > 0 /\ sceneHist.summonedAt = now)
        => Near(SpawnVector(summonStartPos),
                TreeTargetPos(summonStartPos.index, summonStartPos.count,
                              visualExplodeRef, ElapsedTime),
                Fx(6, 10))

\* after moves from before toward target without crossing it, and does move
\* when it is 0.02 or more away
MovesToward(before, after, target) ==
    /\ before <= target => (before <= after /\ after <= target)
    /\ before >= target => (target <= after /\ after <= before)
    /\ Abs(target - before) >= Fx(2, 100) => after # before

(***************************************************************************)
(* C26  On a frame of detect() with a hand, the factor stays in [0, 1] and *)
(* changes by at most 0.1.  With CLOSED_FIST confirmed it does not grow    *)
(* and its distance to 0 shrinks to nine tenths; with OPEN_PALM confirmed  *)
(* it does not fall and its distance to 1 shrinks to nine tenths; with     *)
(* VICTORY confirmed it moves toward 0.5 without crossing it; with IDLE or *)
(* ROTATE confirmed it moves toward 0.2 without crossing it.               *)
(***************************************************************************)
C26_FactorIsSmoothed ==
    [][(trackFrames' = trackFrames + 1 /\ stabHist'.raw # "NONE"
        /\ mounted = "VisionController")
          => /\ smoothFactor' \in 0..ONE
             /\ Abs(smoothFactor' - smoothFactor) <= Fx(1, 10)
             /\ confirmedStateRef' = CLOSED_FIST
                    => /\ smoothFactor' <= smoothFactor
                       /\ 10 * smoothFactor' <= 9 * smoothFactor + 5
             /\ confirmedStateRef' = OPEN_PALM
                    => /\ smoothFactor' >= smoothFactor
                       /\ 10 * (ONE - smoothFactor')
                              <= 9 * (ONE - smoothFactor) + 5
             /\ confirmedStateRef' = VICTORY
                    => MovesToward(smoothFactor, smoothFactor', Fx(1, 2))
             /\ confirmedStateRef' \in {IDLE, ROTATE}
                    => MovesToward(smoothFactor, smoothFactor', Fx(2, 10))]_vars

\* four frames with VICTORY confirmed have brought the factor down from 0.8
C26_Witness ==
    /\ trackFrames = MaxTrackFrames
    /\ confirmedStateRef = VICTORY
    /\ stabHist.raw = VICTORY
    /\ stabHist.same = 4
    /\ smoothFactor > Fx(1, 2)
    /\ smoothFactor < Fx(8, 10)
    /\ visionStore.gestureFactor = smoothFactor

(***************************************************************************)
(* C27  A frame of detect() without a hand leaves the smoothed position,   *)
(* lastRaw and the confirmed gesture as they were, resets the debounce     *)
(* counter to 0 and takes the factor to nine tenths of its value.          *)
(***************************************************************************)
C27_HandLostFrame ==
    [][(trackFrames' = trackFrames + 1 /\ stabHist'.raw = "NONE"
        /\ mounted = "VisionController")
          => /\ smoothPos' = smoothPos
             /\ lastRawStateRef' = lastRawStateRef
             /\ confirmedStateRef' = confirmedStateRef
             /\ frameStabilityCounter' = 0
             /\ Abs(10 * smoothFactor' - 9 * smoothFactor) <= 5
             /\ visionStore'.handPosition = smoothPos
             /\ visionStore'.gestureFactor = smoothFactor']_vars

\* the hand was lost while OPEN_PALM was confirmed, two frames into a fist
C27_Witness ==
    /\ mounted = "VisionController"
    /\ stabHist.raw = "NONE"
    /\ ~visionStore.isHandDetected
    /\ frameStabilityCounter = 0
    /\ confirmedStateRef = OPEN_PALM
    /\ lastRawStateRef = CLOSED_FIST
    /\ smoothPos # Pt(0, 0, 0)
    /\ smoothFactor > 0

(***************************************************************************)
(* C28  Whenever the controller is inactive and its effects have run (the  *)
(* camera is off, gallery mode is on, or the recognizer is not loaded),    *)
(* the store reports no hand, the gesture IDLE and the factor it started   *)
(* with, so that the target of the explode blend is the slider value.      *)
(***************************************************************************)
C28_InactiveStoreIsCleared ==
    (~(Active /\ Loaded) /\ ~EffectsStale)
        => /\ ~visionStore.isHandDetected
           /\ EffectiveTarget(manualExplodeFactor, visionStore.isHandDetected,
                              visionStore.gestureFactor) = manualExplodeFactor

(***************************************************************************)
(* C29  In every reachable state a visible overlay has a featured index:   *)
(* overlayVisible is never true while featuredIndex is null, whatever the  *)
(* order of the frames, the gestures and the gallery toggles; and so a     *)
(* VICTORY rising edge more than a second after the last summon starts a   *)
(* summon on a frame outside gallery mode when no index is featured.       *)
(***************************************************************************)
C29_VisibleHasFeaturedIndex ==
    /\ [](overlayVisible => featuredIndex # NULL)
    /\ [][(/\ SummonTick
           /\ featuredIndex = NULL
           /\ visionStore.gesture = VICTORY
           /\ ~wasGesturing
           /\ now' - lastActionTime > ONE)
              => SummonStarts]_vars

(***************************************************************************)
(* C30  Every frame outside gallery mode leaves wasGesturing equal to      *)
(* whether the gesture of that frame is VICTORY, a frame that rejected a   *)
(* rising edge included; a summon starts only on a frame whose gesture is  *)
(* VICTORY with wasGesturing false, so never on the frame after a frame    *)
(* outside gallery mode whose gesture was VICTORY; a frame in gallery mode *)
(* leaves wasGesturing, the idle timer and the last-action time unchanged. *)
(***************************************************************************)
C30_EdgeFlagFollowsEveryTick ==
    /\ []((sceneFrames > 0 /\ ~sceneHist.galleryMode)
            => wasGesturing = (sceneHist.gesture = VICTORY))
    /\ [][/\ (SummonTick => wasGesturing' = (visionStore.gesture = VICTORY))
           /\ ((SummonTick /\ SummonStarts)
                 => /\ visionStore.gesture = VICTORY
                    /\ ~wasGesturing
                    /\ ((sceneFrames > 0 /\ ~sceneHist.galleryMode)
                           => sceneHist.gesture # VICTORY))
           /\ ((sceneFrames' = sceneFrames + 1 /\ isGalleryMode)
                 => UNCHANGED <<wasGesturing, idleTimer, lastActionTime>>)]_vars

\* a rising edge came less than a second after the summon and was rejected;
\* the flag is set all the same
C30_Witness ==
    /\ sceneFrames > 0
    /\ ~sceneHist.galleryMode
    /\ sceneHist.gesture = VICTORY
    /\ ~sceneHist.visibleBefore
    /\ ~overlayVisible
    /\ sequenceCounter = 1
    /\ now - lastActionTime <= ONE
    /\ wasGesturing
====
